---- MODULE Spec2Model ----
(***************************************************************************)
(* Engine Session and Analysis Channel of the chess coach: the             *)
(* useStockfish hook of src/unnamed/part_000 (movetime search, isready     *)
(* probe, safety timeout) and of src/src/App.jsx (depth search, no probe,  *)
(* no timeout), together with the engine they talk to.                     *)
(*                                                                         *)
(* The engine is an external process: it reads the commands posted to it   *)
(* in order and answers as a UCI engine does (uciok to uci, readyok to     *)
(* isready, info lines and one bestmove per search, a bestmove when a      *)
(* running search is stopped).  It may stay silent for ever.               *)
(*                                                                         *)
(* Every analyze call gets an id 1, 2, ... in call order.  The id stands   *)
(* for the position the call was made for, and every info / bestmove line  *)
(* carries the id of the search that produced it (field s): the protocol   *)
(* itself has no such tag, the model keeps it to tell whose line a         *)
(* listener reads.                                                         *)
(*                                                                         *)
(* Around the hook: the pure helpers of the App (gradeFromLoss,            *)
(* detectOpening over the opening book) and the handlers of the coaching   *)
(* pipeline (onPieceDrop, engineMove, newGame, onUndo, getHints) with the  *)
(* Chess objects they hold.  The board library is external: a position is  *)
(* the sequence of moves that led to it and the legality of a user's move  *)
(* is an answer the board gives.                                           *)
(*                                                                         *)
(* The start effect installs onMsg twice, as the onmessage property and    *)
(* with addEventListener?.("message", onMsg).  Whether the second takes    *)
(* effect depends on the object window.STOCKFISH() returns; dual says it   *)
(* does, and then every line runs onMsg a second time (OnMsgAgain) after   *)
(* the continuations released by the first run.                            *)
(***************************************************************************)
EXTENDS Integers, Sequences, FiniteSets, TLC

\* ---- Program constants ----
ELO_PRESETS == {800, 1000, 1200, 1400, 1600, 1800, 2000, 2200}
DEFAULT_ELO == 1200
MULTIPV == 3
MAX_HINTS == 3
MOVETIME_MS == 450

\* ---- Bounds of the model ----
MaxCalls == 2        \* analyze calls made in one run
MaxInfo == 2         \* info lines the engine emits in one run
MaxEloChanges == 2   \* rating changes made by the user in one run
MaxDirectCalls == 1  \* analyze calls made in one run of SpecIface

MaxParseLines == 4   \* info lines the engine emits in one run of SpecParse
MaxLoss == 200       \* centipawn losses graded: -MaxLoss..MaxLoss
MaxHist == 5         \* length of the move histories matched against the book
MaxAppCalls == 4     \* analyze calls made in one run of SpecApp
MaxTasks == 2        \* handlers started in one run of SpecApp (piece drops, hints, opening moves)
MaxNewGames == 1     \* new games started in one run of SpecApp
MaxUndos == 1        \* undo requests made in one run of SpecApp
MaxAcks == 1         \* further uciok lines the engine emits in one run of SpecRating
MaxMoves == 2        \* legal moves onto one square that explainHeuristic is shown
MaxScore == 120      \* largest centipawn score handed to the loss computation

Variants == {"part_000", "App"}
CallIds == 1..(IF MaxAppCalls > MaxCalls THEN MaxAppCalls ELSE MaxCalls)
TaskIds == 1..MaxTasks
\* centipawn values an info line of the model may carry
Scores == {35}
\* mate distances an info line of the model may carry
MateDistances == {-2, 0, 3}
\* the score field of an info line: absent, "score cp N" or "score mate N"
ScoreFields ==
  {[hasScore |-> FALSE, kind |-> "cp", val |-> 0]}
    \cup {[hasScore |-> TRUE, kind |-> "cp", val |-> v] : v \in Scores}
    \cup {[hasScore |-> TRUE, kind |-> "mate", val |-> v] : v \in MateDistances}
\* the pv / multipv fields of an info line: absent, a rank N from 0 to one
\* above the configured count with a legal move, or a rank with a move that
\* is not legal in the analysed position
RankFields ==
  {[pv |-> FALSE, mpv |-> 0, legal |-> TRUE]}
    \cup {[pv |-> TRUE, mpv |-> r, legal |-> TRUE] : r \in 0..(MULTIPV + 1)}
    \cup {[pv |-> TRUE, mpv |-> 1, legal |-> FALSE]}
\* the info lines of the model: a score alone, a ranked pv alone, or a ranked
\* pv with a centipawn score
InfoFields ==
  {<<f, r>> \in ScoreFields \X RankFields : ~r.pv \/ ~f.hasScore \/ f.kind = "cp"}

VARIABLES
  variant,        \* which copy of the program runs: part_000 or src/App.jsx
  hasCtor,        \* window.STOCKFISH (the engine constructor) is present
  mounted,        \* the start effect has run
  engineRef,      \* engineRef.current is set (TRUE) or null (FALSE)
  ready,          \* the ready state as last written by setReady
  renderedReady,  \* the ready value of the last committed render (what closures and effect deps see)
  elo,            \* the selected rating (App state)
  startElo,       \* the rating captured by the onMsg closure at start
  eloChanges,     \* rating changes made so far
  listeners,      \* listeners.current / subs.current: ids of the calls whose listener is registered, in order
  outbox,         \* every command posted to the engine, in order
  engPos,         \* index in outbox of the next command the engine reads
  engPosition,    \* engine: the position last loaded (a call id, 0 = none)
  engSearch,      \* engine: the search in progress (a call id, 0 = idle)
  engInfoLeft,    \* engine: info lines it may still emit in this run
  engAcks,        \* engine: uciok lines it emitted beyond the reply to uci
  inbox,          \* lines emitted by the engine, not yet handled by onMsg
  nextCall,       \* id of the next analyze call
  phase,          \* per call: "idle" (not made), "pending", "settled"
  lastCp,         \* per call: the listener's lastCp
  lines,          \* per call: the listener's lines array, as the set of filled slots
  result,         \* per call: the value the promise resolved with
  timer,          \* per call: "none", "armed", "fired"
  seen,           \* per call: ids of the searches whose info/bestmove lines its listener processed
  readyAtCall,    \* per call: the session's ready flag when the call was made
  heardScore,     \* per call: the last line with a score field its listener handled (NoLine: none yet)
  limit,          \* per call: the search limit it was called with (0: not called)
  observed,       \* per call: the ranks its listener read from lines whose pv move resolved
  gradedLoss,     \* the centipawn loss last graded
  grade,          \* the grade gradeFromLoss gave it ("none": nothing graded yet)
  movesSAN,       \* currentSAN: the SAN history of the game
  openingInfo,    \* the memoised detectOpening(currentSAN)
  explained,      \* the move and the position explainHeuristic was last called with (NoExplain: none)
  rationale,      \* the parts explainHeuristic returned for it, in order
  lossIn,         \* the scores and the mover the loss was last computed from (NoLossIn: none)
  objs,           \* every Chess object made so far: the position it was built from and the moves made on it
  game,           \* the game state: index in objs of the rendered Chess object
  fenShown,       \* the fen state: the position on display
  coach,          \* the coach state: the MoveRecord sequence
  candidates,     \* the candidates state: the hints on display
  tasks,          \* the async handlers started so far, by number
  nextTask,       \* number of the next handler
  openTimers,     \* the timers newGame set for the engine's opening move, oldest first
  newGames,       \* new games started so far
  undos,          \* undo requests made so far
  dual,           \* the engine object has addEventListener: onMsg is installed twice
  redeliver,      \* the line whose second onMsg invocation is still to run (NoLine: none)
  seenUciok,      \* onMsg has handled a line containing uciok
  seenReadyok     \* onMsg has handled a line containing readyok (after uciok: readyokAfterUciok)

vars == <<variant, hasCtor, mounted, engineRef, ready, renderedReady, elo, startElo,
          eloChanges, listeners, outbox, engPos, engPosition, engSearch, engInfoLeft,
          engAcks,
          inbox, nextCall, phase, lastCp, lines, result, timer, seen, readyAtCall,
          heardScore, observed, limit, seenUciok, seenReadyok, dual, redeliver,
          gradedLoss, grade, movesSAN, openingInfo, explained, rationale, lossIn,
          objs, game, fenShown, coach, candidates, tasks, nextTask, openTimers, newGames, undos>>

sessionVars == <<variant, hasCtor, mounted, engineRef, ready, renderedReady, elo,
                 startElo, eloChanges, seenUciok, seenReadyok, dual, redeliver>>
engineVars == <<engPos, engPosition, engSearch, engInfoLeft, engAcks>>
callVars == <<nextCall, phase, lastCp, lines, result, timer, seen, readyAtCall, heardScore,
             observed, limit>>

\* the state of the App component and of its running handlers
appVars == <<objs, game, fenShown, coach, candidates, tasks, nextTask, openTimers, newGames, undos>>
\* the hook, the engine and the lines between them
hookVars == <<sessionVars, engineVars, callVars, listeners, outbox, inbox>>
\* the values computed by the pure helpers of the App
pureVars == <<gradedLoss, grade, movesSAN, openingInfo, explained, rationale, lossIn>>
\* the pure helpers' variables other than the memos of the render
restPure == <<gradedLoss, grade, explained, rationale, lossIn>>
\* everything outside the hook and the engine
outerVars == <<pureVars, appVars>>

\* ---- Commands and lines ----
Cmd(c, a) == [cmd |-> c, arg |-> a]
CmdUci == Cmd("uci", 0)
CmdLimitStrength == Cmd("setoption UCI_LimitStrength", 1)
CmdElo(n) == Cmd("setoption UCI_Elo", n)
CmdMultiPV(n) == Cmd("setoption MultiPV", n)
CmdIsReady == Cmd("isready", 0)
CmdStop == Cmd("stop", 0)
CmdPosition(c) == Cmd("position", c)
CmdGo(c) == Cmd("go", c)

\* An engine line, by the fields the code reads from it:
\*   t         uciok / readyok / info / bestmove
\*   s         the search that emitted it (not part of the text)
\*   hasScore  "score (cp|mate) N" is present; kind is cp or mate, val is N
\*   pv        " pv <move>" and " multipv N" are both present; mpv is N and
\*             legal says whether <move> is a legal move of the analysed position
\*   tok       the token after "bestmove" (0: none)
RichLine(t, s, hasScore, kind, val, pv, mpv, legal, tok) ==
  [t |-> t, s |-> s, hasScore |-> hasScore, kind |-> kind, val |-> val,
   pv |-> pv, mpv |-> mpv, legal |-> legal, tok |-> tok]
\* a line with a centipawn score and, when mpv is not 0, a legal pv of rank mpv
Line(t, s, hasScore, cp, mpv) ==
  RichLine(t, s, hasScore, "cp", cp, mpv # 0, mpv, TRUE, IF t = "bestmove" THEN s ELSE 0)
LineUciok == Line("uciok", 0, FALSE, 0, 0)
LineReadyok == Line("readyok", 0, FALSE, 0, 0)
LineBestmove(s) == Line("bestmove", s, FALSE, 0, 0)
\* no line
NoLine == Line("none", 0, FALSE, 0, 0)

\* ---- Results ----
NoResult == [settled |-> FALSE, bestmove |-> 0, cp |-> 0, lines |-> <<>>]
Result(bm, cp, ls) == [settled |-> TRUE, bestmove |-> bm, cp |-> cp, lines |-> ls]
\* { bestmove: null, cp: 0, lines: [] }; bestmove 0 is null
Neutral == Result(0, 0, <<>>)

\* ---- Helpers ----
InSeq(x, sq) == \E i \in 1..Len(sq) : sq[i] = x
RECURSIVE Without(_, _)
\* ls.filter(f => f !== fn)
Without(ls, c) ==
  IF ls = <<>> THEN <<>>
  ELSE IF Head(ls) = c THEN Without(Tail(ls), c)
  ELSE <<Head(ls)>> \o Without(Tail(ls), c)

\* off() dropping the newest entry of the registry instead of its own listener
Off_Pop(ls, c) == IF ls = <<>> THEN ls ELSE SubSeq(ls, 1, Len(ls) - 1)

\* the unsubscribe function returned by on(fn), applied to the registry ls
Off(ls, c) == Without(ls, c)

\* on(fn): listeners.current.push(fn)
On(ls, c) == Append(ls, c)

RECURSIVE Compact(_, _)
\* lines.filter(Boolean): the filled slots from index i upwards, in index order
Compact(L, i) ==
  IF \A e \in L : e.idx < i THEN <<>>
  ELSE IF \E e \in L : e.idx = i
       THEN <<CHOOSE e \in L : e.idx = i>> \o Compact(L, i + 1)
       ELSE Compact(L, i + 1)
LinesFilter(L) == Compact(L, 0)

\* lines.push({ uci, san, cp }) in place of the indexed store
SetSlot_Push(L, i, cp) == L \cup {[idx |-> Cardinality(L), cp |-> cp]}

\* lines[idx] = { uci, san, cp }
SetSlot(L, i, cp) == {e \in L : e.idx # i} \cup {[idx |-> i, cp |-> cp]}

\* ---- Grading ----
Abs(n) == IF n < 0 THEN -n ELSE n

\* the thresholds read as exclusive upper bounds
gradeFromLoss_Strict(cpLoss) ==
  IF Abs(cpLoss) < 10 THEN "A+"
  ELSE IF Abs(cpLoss) < 20 THEN "A"
  ELSE IF Abs(cpLoss) < 50 THEN "B"
  ELSE IF Abs(cpLoss) < 90 THEN "C"
  ELSE IF Abs(cpLoss) < 150 THEN "D"
  ELSE "F"

\* loss = Math.abs(cpLoss) / 100, compared with 0.1, 0.2, 0.5, 0.9, 1.5.  For
\* an integer n the quotient n / 100 is the double nearest to the decimal, the
\* same double the literal denotes, so loss <= 0.1 is Abs(cpLoss) <= 10, etc.
gradeFromLoss(cpLoss) ==
  IF Abs(cpLoss) <= 10 THEN "A+"
  ELSE IF Abs(cpLoss) <= 20 THEN "A"
  ELSE IF Abs(cpLoss) <= 50 THEN "B"
  ELSE IF Abs(cpLoss) <= 90 THEN "C"
  ELSE IF Abs(cpLoss) <= 150 THEN "D"
  ELSE "F"

\* ---- Opening book ----
\* a SAN move: the move text and its check decoration ("", "+" or "#")
San(mv, deco) == [mv |-> mv, deco |-> deco]
\* s.replace(/[+#]/g, "")
StripDeco(s) == San(s.mv, "")
\* a pgn: its words in order (the book's pgn strings hold moves only)
Pgn(ms) == [i \in 1..Len(ms) |-> San(ms[i], "")]

OPENINGS == <<
  [eco |-> "C20", name |-> "King's Pawn Game", pgn |-> Pgn(<<"e4">>)],
  [eco |-> "C40", name |-> "King's Knight Opening", pgn |-> Pgn(<<"e4", "e5", "Nf3">>)],
  [eco |-> "C50", name |-> "Italian Game", pgn |-> Pgn(<<"e4", "e5", "Nf3", "Nc6", "Bc4">>)],
  [eco |-> "C60", name |-> "Ruy Lopez", pgn |-> Pgn(<<"e4", "e5", "Nf3", "Nc6", "Bb5">>)],
  [eco |-> "B30", name |-> "Sicilian Defense", pgn |-> Pgn(<<"e4", "c5">>)],
  [eco |-> "C00", name |-> "French Defense", pgn |-> Pgn(<<"e4", "e6">>)],
  [eco |-> "B01", name |-> "Scandinavian Defense", pgn |-> Pgn(<<"e4", "d5">>)],
  [eco |-> "D00", name |-> "Queen's Pawn Game", pgn |-> Pgn(<<"d4", "d5">>)],
  [eco |-> "D06", name |-> "Slav Defense", pgn |-> Pgn(<<"d4", "d5", "c4", "c6">>)],
  [eco |-> "D20", name |-> "Queen's Gambit Accepted", pgn |-> Pgn(<<"d4", "d5", "c4", "dxc4">>)],
  [eco |-> "D30", name |-> "Queen's Gambit Declined", pgn |-> Pgn(<<"d4", "d5", "c4", "e6">>)],
  [eco |-> "E60", name |-> "King's Indian Defense", pgn |-> Pgn(<<"d4", "Nf6", "c4", "g6">>)] >>

\* pgn.replace(/[0-9]+\.|[?!+#]/g, "").trim().split(/\s+/).filter(Boolean)
pgnTokens(pgn) == [i \in 1..Len(pgn) |-> StripDeco(pgn[i])]

\* the replay loop of tryMatch: each token is looked up among the legal moves
\* of the replayed position and the move's own SAN is kept.  Every line of the
\* book is a legal line of the game without a check, so every token resolves
\* and its SAN carries no decoration.
ReplaySan(toks) == [i \in 1..Len(toks) |-> San(toks[i].mv, "")]

Min(a, b) == IF a <= b THEN a ELSE b

\* null
NoOpening == [found |-> FALSE, eco |-> "", name |-> "", matchedLen |-> 0]

\* tryMatch(opening) for the history h
tryMatch(opening, h) ==
  LET target == ReplaySan(pgnTokens(opening.pgn)) IN
  IF \E i \in 1..Min(Len(target), Len(h)) : StripDeco(target[i]) # StripDeco(h[i])
  THEN NoOpening
  ELSE [found |-> TRUE, eco |-> opening.eco, name |-> opening.name, matchedLen |-> Len(target)]

\* the replacement test with >= in place of >
Better_OrEqual(got, best) == got.found /\ (~best.found \/ got.matchedLen >= best.matchedLen)

\* got && (!best || got.matchedLen > best.matchedLen)
Better(got, best) == got.found /\ (~best.found \/ got.matchedLen > best.matchedLen)

RECURSIVE BestFrom(_, _, _)
\* the loop over OPENINGS from entry k on, with best so far; each round
\* computes got once and hands the next round the value of best
BestFrom(k, best, h) ==
  IF k > Len(OPENINGS) THEN best
  ELSE CHOOSE r \in {BestFrom(k + 1, IF Better(got, best) THEN got ELSE best, h) :
                       got \in {tryMatch(OPENINGS[k], h)}} : TRUE

detectOpening(h) == BestFrom(1, NoOpening, h)

\* the moves of the model's histories at ply p: the book's moves of that ply
\* and one move of no book line, each with or without a check mark
HistoryMoves(p) ==
  LET names == {OPENINGS[k].pgn[p].mv : k \in {j \in 1..Len(OPENINGS) : Len(OPENINGS[j].pgn) >= p}}
                 \cup {"a3"}
  IN {San(n, d) : n \in names, d \in {"", "+"}}

\* the pure helpers at rest
\* ---- explainHeuristic ----
Other(color) == IF color = "w" THEN "b" ELSE "w"
\* after.moves({ verbose: true }): the legal moves of the side to move, which
\* after the move is the mover's opponent.  x.oppTo of them land on move.to and
\* x.oppElse elsewhere; the x.ownTo moves with which the mover's pieces could
\* reach move.to are not legal moves of this position and are not listed.
AfterMoves(x) ==
  [i \in 1..x.oppTo |-> [to |-> x.to, color |-> Other(x.mover)]]
    \o [i \in 1..x.oppElse |-> [to |-> "a1", color |-> Other(x.mover)]]
\* after.turn()
AfterTurn(x) == Other(x.mover)
Center == {"d4", "d5", "e4", "e5"}
UnderDefended == "The moved piece is under-defended."
MorePrecise == "Idea makes sense, but there may be a more precise square."
\* move.piece.toUpperCase()
ToUpperCase(piece) ==
  CASE piece = "p" -> "P" [] piece = "n" -> "N" [] piece = "b" -> "B" [] piece = "k" -> "K"
\* parts.push(text) if the test holds
PushIf(parts, test, text) == IF test THEN Append(parts, text) ELSE parts
explainHeuristic(x) ==
  LET p1 == PushIf(<<>>, x.capture, "You captured material.")
      p2 == PushIf(p1, x.mark \in {"+"}, "You gave check.")
      p3 == PushIf(p2, x.mark \in {"#"}, "Checkmate, nice.")
      p4 == PushIf(p3, x.to \in Center, "You fought for the center.")
      p5 == PushIf(p4, ToUpperCase(x.piece) \in {"N", "B"}, "You developed a minor piece.")
      p6 == PushIf(p5, x.castle /\ x.mark = "", "You castled your king to safety.")
      us == IF AfterTurn(x) = "w" THEN "b" ELSE "w"
      attackers == SelectSeq(AfterMoves(x), LAMBDA m : m.to = x.to /\ m.color = us)
      defenders == SelectSeq(AfterMoves(x), LAMBDA m : m.to = x.to /\ m.color # us)
      p7 == PushIf(p6, Len(attackers) > Len(defenders), UnderDefended)
  IN PushIf(p7, p7 = <<>>, MorePrecise)
\* the moves explainHeuristic is called with: a move of the mover to square to,
\* and what the position after it holds
ExplainInputs ==
  {x \in [capture : BOOLEAN, mark : {"", "+", "#"}, to : {"e4", "g1"}, piece : {"p", "n", "k"},
          castle : BOOLEAN, mover : {"w", "b"}, oppTo : 0..MaxMoves, oppElse : 0..1,
          ownTo : 0..MaxMoves] :
     /\ x.castle => (x.piece = "k" /\ x.to = "g1" /\ ~x.capture)
     /\ x.mark = "#" => (x.oppTo = 0 /\ x.oppElse = 0)}
NoExplain == [capture |-> FALSE, mark |-> "", to |-> "none", piece |-> "p", castle |-> FALSE,
              mover |-> "w", oppTo |-> 0, oppElse |-> 0, ownTo |-> 0]
NoLossIn == [cpBefore |-> 0, cpAfter |-> 0, mover |-> "none"]

IdlePure ==
  /\ explained = NoExplain
  /\ rationale = <<>>
  /\ lossIn = NoLossIn
  /\ gradedLoss = 0
  /\ grade = "none"
  /\ movesSAN = <<>>
  /\ openingInfo = detectOpening(<<>>)

\* ---- The board and the handlers of the App ----
\* A position is the sequence of the moves that led to it.  A move names who
\* made it (the user's handler t, or the engine's search s) and whether it
\* ends the game.
UserMove(t, ov) == [by |-> "user", id |-> t, over |-> ov]
EngineMove(s) == [by |-> "engine", id |-> s, over |-> FALSE]
\* new Chess(fen): the position, no history
NewChess(pos) == [base |-> pos, hist |-> <<>>]
\* game.fen() of object o
Fen(o) == objs[o].base \o objs[o].hist
\* game.isGameOver()
IsGameOver(pos) == pos # <<>> /\ pos[Len(pos)].over
\* game.turn(): White moves first
Turn(pos) == IF Len(pos) % 2 = 0 THEN "w" ELSE "b"
\* the answers game.move may give to a move of the user in position pos
MoveAnswers(pos) == IF IsGameOver(pos) THEN {FALSE} ELSE BOOLEAN

\* move.san of the move made at ply p: the game follows the book's Italian
\* Game and goes on with a3
PlySan(p) == IF p <= Len(OPENINGS[3].pgn) THEN OPENINGS[3].pgn[p] ELSE San("a3", "")
\* game.history({ verbose: true }).map(m => m.san) of Chess object ob
HistorySan(ob) == [i \in 1..Len(ob.hist) |-> PlySan(Len(ob.base) + i)]
\* the render after setGame: the game state holds another object, so
\* useMemo(..., [game]) recomputes currentSAN, and openingInfo with it
Rendered ==
  /\ movesSAN' = HistorySan(objs'[game'])
  /\ openingInfo' = detectOpening(movesSAN')

NoTask == [kind |-> "none", pc |-> "idle", obj |-> 0, rdy |-> FALSE, call |-> 0, calls |-> 0,
           pos |-> <<>>, ov |-> FALSE, cpBefore |-> 0, prePos |-> <<>>]
\* setTimeout(engineMove, 150): the engineMove of the render, with the game
\* object and the ready value in its closure
OpenTimer(o, r) == [obj |-> o, rdy |-> r]

\* the record appended with its fields out of order: the newest first
CoachAppend_Front(f, rec) == <<rec>> \o f

\* setCoach(f => [...f, rec])
CoachAppend(f, rec) == Append(f, rec)

\* { ply: game.history().length, move: move.san, grade, loss, note }
MoveRecord(t, ply, mv, g, loss) == [drop |-> t, ply |-> ply, move |-> mv, grade |-> g, loss |-> loss]

\* the App after its first render
IdleApp ==
  /\ objs = <<NewChess(<<>>)>>
  /\ game = 1
  /\ fenShown = <<>>
  /\ coach = <<>>
  /\ candidates = <<>>
  /\ tasks = [t \in TaskIds |-> NoTask]
  /\ nextTask = 1
  /\ openTimers = <<>>
  /\ newGames = 0
  /\ undos = 0

IdleOuter == IdlePure /\ IdleApp

\* ---- Engine Session ----
\* analyze without its guard
AnalyzeGuard_Dropped == FALSE

\* the guard of analyze: if (!eng) return resolve({ bestmove: null, cp: 0, lines: [] })
AnalyzeGuard == ~engineRef

\* the sync effect posting the rating captured at start instead of the current one
SyncOptions_Stale(e, r) ==
  IF ~engineRef \/ ~r THEN <<>>
  ELSE <<CmdElo(startElo), CmdMultiPV(MULTIPV)>>

\* the sync effect without its ready test
SyncOptions_NoReadyTest(e, r) ==
  IF ~engineRef THEN <<>>
  ELSE <<CmdElo(e), CmdMultiPV(MULTIPV)>>

\* the option sync effect, run with rating e and ready value r in its closure
SyncOptions(e, r) ==
  IF ~engineRef \/ ~r THEN <<>>
  ELSE <<CmdElo(e), CmdMultiPV(MULTIPV)>>

\* what onMsg posts when the line contains uciok
HandshakeOptions ==
  IF variant = "part_000"
  THEN <<CmdLimitStrength, CmdElo(startElo), CmdMultiPV(MULTIPV), CmdIsReady>>
  ELSE <<CmdLimitStrength, CmdElo(startElo), CmdMultiPV(MULTIPV)>>

\* the ready value after onMsg handled line m
ReadyAfter(m) ==
  IF variant = "part_000"
  THEN ready \/ m.t = "readyok"
  ELSE ready \/ m.t = "uciok"

\* the state after construction; n is the number of info lines the engine may emit
InitWith(n) ==
  /\ variant \in Variants
  /\ hasCtor \in BOOLEAN
  /\ mounted = FALSE
  /\ engineRef = FALSE
  /\ ready = FALSE
  /\ renderedReady = FALSE
  /\ elo = DEFAULT_ELO
  /\ startElo = DEFAULT_ELO
  /\ eloChanges = 0
  /\ listeners = <<>>
  /\ outbox = <<>>
  /\ engPos = 1
  /\ engPosition = 0
  /\ engSearch = 0
  /\ engInfoLeft = n
  /\ engAcks = 0
  /\ inbox = <<>>
  /\ nextCall = 1
  /\ phase = [c \in CallIds |-> "idle"]
  /\ lastCp = [c \in CallIds |-> 0]
  /\ lines = [c \in CallIds |-> {}]
  /\ result = [c \in CallIds |-> NoResult]
  /\ timer = [c \in CallIds |-> "none"]
  /\ seen = [c \in CallIds |-> {}]
  /\ readyAtCall = [c \in CallIds |-> FALSE]
  /\ heardScore = [c \in CallIds |-> NoLine]
  /\ observed = [c \in CallIds |-> {}]
  /\ limit = [c \in CallIds |-> 0]
  /\ seenUciok = FALSE
  /\ seenReadyok = FALSE
  /\ dual \in BOOLEAN
  /\ redeliver = NoLine

Init == InitWith(MaxInfo) /\ IdleOuter
\* the same, for the helpers that never touch the engine
InitPure == Init /\ ~dual

\* the start effect (runs once, after the first render), followed by the sync
\* effect of the same commit, which returns at its guard: ready is false
Start ==
  /\ ~mounted
  /\ mounted' = TRUE
  /\ IF hasCtor /\ ~engineRef
     THEN /\ engineRef' = TRUE
          /\ startElo' = elo
          /\ outbox' = Append(outbox, CmdUci)
     ELSE UNCHANGED <<engineRef, startElo, outbox>>
  /\ UNCHANGED <<variant, hasCtor, ready, renderedReady, elo, eloChanges, listeners,
                 inbox, seenUciok, seenReadyok, dual, redeliver>>
  /\ UNCHANGED engineVars
  /\ UNCHANGED callVars
  /\ UNCHANGED outerVars

\* the render that follows setReady(true), and the sync effect it triggers
Commit ==
  /\ redeliver = NoLine
  /\ renderedReady # ready
  /\ renderedReady' = ready
  /\ outbox' = outbox \o SyncOptions(elo, ready)
  /\ UNCHANGED <<variant, hasCtor, mounted, engineRef, ready, elo, startElo, eloChanges,
                 listeners, inbox, seenUciok, seenReadyok, dual, redeliver>>
  /\ UNCHANGED engineVars
  /\ UNCHANGED callVars
  /\ UNCHANGED outerVars

\* the user picks another rating: setElo(n), the render, and the sync effect
SetElo(n) ==
  /\ redeliver = NoLine
  /\ mounted
  /\ n # elo
  /\ eloChanges < MaxEloChanges
  /\ elo' = n
  /\ eloChanges' = eloChanges + 1
  /\ outbox' = outbox \o SyncOptions(n, renderedReady)
  /\ UNCHANGED <<variant, hasCtor, mounted, engineRef, ready, renderedReady, startElo,
                 listeners, inbox, seenUciok, seenReadyok, dual, redeliver>>
  /\ UNCHANGED engineVars
  /\ UNCHANGED callVars
  /\ UNCHANGED outerVars

\* ---- Analysis Channel ----
\* analyze(fen, l): call number c
Analyze(c, l) ==
  /\ c = nextCall
  /\ c \in CallIds
  /\ nextCall' = c + 1
  /\ limit' = [limit EXCEPT ![c] = l]
  /\ readyAtCall' = [readyAtCall EXCEPT ![c] = ready]
  /\ IF AnalyzeGuard
     THEN /\ phase' = [phase EXCEPT ![c] = "settled"]
          /\ result' = [result EXCEPT ![c] = Neutral]
          /\ UNCHANGED <<listeners, outbox, timer>>
     ELSE /\ phase' = [phase EXCEPT ![c] = "pending"]
          /\ listeners' = On(listeners, c)
          /\ outbox' = outbox \o <<CmdStop, CmdPosition(c), CmdGo(c)>>
          /\ timer' = [timer EXCEPT ![c] = IF variant = "part_000" THEN "armed" ELSE "none"]
          /\ UNCHANGED result
  /\ UNCHANGED <<lastCp, lines, seen, heardScore, observed, inbox>>
  /\ UNCHANGED sessionVars
  /\ UNCHANGED engineVars

\* analyze as the application calls it: every caller (the evaluation effect,
\* engineMove, onPieceDrop, getHints) first tests the rendered ready flag
CallerAnalyze ==
  renderedReady /\ nextCall <= MaxCalls /\ Analyze(nextCall, MOVETIME_MS) /\ UNCHANGED outerVars

\* analyze called directly, whatever the session state
DirectAnalyze == nextCall <= MaxDirectCalls /\ Analyze(nextCall, MOVETIME_MS) /\ UNCHANGED outerVars

\* the conversion without the sign test of a mate score
ScoreOf_Unsigned(m) ==
  IF m.kind = "cp" THEN m.val ELSE 100000

\* mScore[1] === "cp" ? parseInt(mScore[2], 10) : (mScore[2].startsWith("-") ? -100000 : 100000)
\* (val is the number matched by -?\d+; "-0" does not occur)
ScoreOf(m) ==
  IF m.kind = "cp" THEN m.val
  ELSE IF m.val < 0 THEN -100000 ELSE 100000

\* the listener of call c handles line m: the values of its lastCp and lines afterwards
ListenerCp(c, m) == IF m.t = "info" /\ m.hasScore THEN ScoreOf(m) ELSE lastCp[c]
ListenerLines(c, m) ==
  IF m.t = "info" /\ m.pv /\ m.legal THEN SetSlot(lines[c], m.mpv - 1, ListenerCp(c, m))
  ELSE lines[c]

\* bestmove = line.split(" ")[1] || null
BestmoveToken(m) == m.tok

RECURSIVE OffAll(_, _)
\* the registry after every listener of snapshot sn has called its off()
OffAll(ls, sn) == IF sn = <<>> THEN ls ELSE OffAll(Off(ls, Head(sn)), Tail(sn))

\* onMsg on the next line of the engine: the handshake, then
\* listeners.current.forEach(fn => fn(text))
onMsg(m) ==
  /\ LET sn == listeners
         hit(c) == InSeq(c, sn)
     IN
     /\ outbox' = IF m.t = "uciok" THEN outbox \o HandshakeOptions ELSE outbox
     /\ ready' = ReadyAfter(m)
     /\ seenUciok' = (seenUciok \/ m.t = "uciok")
     /\ seenReadyok' = (seenReadyok \/ (m.t = "readyok" /\ seenUciok))
     /\ lastCp' = [c \in CallIds |-> IF hit(c) THEN ListenerCp(c, m) ELSE lastCp[c]]
     /\ lines' = [c \in CallIds |-> IF hit(c) THEN ListenerLines(c, m) ELSE lines[c]]
     /\ seen' = [c \in CallIds |->
                   IF hit(c) /\ m.t \in {"info", "bestmove"} THEN seen[c] \cup {m.s} ELSE seen[c]]
     /\ heardScore' = [c \in CallIds |->
                         IF hit(c) /\ m.t = "info" /\ m.hasScore THEN m ELSE heardScore[c]]
     /\ observed' = [c \in CallIds |->
                       IF hit(c) /\ m.t = "info" /\ m.pv /\ m.legal
                       THEN observed[c] \cup {m.mpv} ELSE observed[c]]
     /\ IF m.t = "bestmove"
        THEN /\ listeners' = OffAll(listeners, sn)
             /\ phase' = [c \in CallIds |-> IF hit(c) THEN "settled" ELSE phase[c]]
             /\ result' = [c \in CallIds |->
                             IF hit(c) /\ ~result[c].settled
                             THEN Result(BestmoveToken(m), lastCp[c], LinesFilter(lines[c]))
                             ELSE result[c]]
        ELSE UNCHANGED <<listeners, phase, result>>
  /\ UNCHANGED <<variant, hasCtor, mounted, engineRef, renderedReady, elo, startElo,
                 eloChanges, nextCall, timer, readyAtCall, limit, dual>>
  /\ UNCHANGED engineVars
  /\ UNCHANGED outerVars

\* the engine emits a line: the onmessage property runs onMsg, and where the
\* engine object is an event target the listener added for "message" is due next
OnMsg ==
  /\ inbox # <<>>
  /\ redeliver = NoLine
  /\ inbox' = Tail(inbox)
  /\ redeliver' = IF dual THEN Head(inbox) ELSE NoLine
  /\ onMsg(Head(inbox))

\* the same message event reaches the listener added with addEventListener:
\* onMsg runs again on the same line, after the continuations the first run released
OnMsgAgain ==
  /\ redeliver # NoLine
  /\ redeliver' = NoLine
  /\ inbox' = inbox
  /\ onMsg(redeliver)

\* the timer of call d is due before the timer of call c whenever both are
\* armed: it was set earlier (d < c) with a delay (limit + 600) not longer
TimerBefore(d, c) == d < c /\ limit[d] <= limit[c]

\* the safety timeout of call c fires
Timeout(c) ==
  /\ redeliver = NoLine
  /\ timer[c] = "armed"
  /\ \A d \in CallIds : timer[d] = "armed" => ~TimerBefore(d, c)
  /\ timer' = [timer EXCEPT ![c] = "fired"]
  /\ listeners' = Off(listeners, c)
  /\ IF result[c].settled
     THEN UNCHANGED <<phase, result>>
     ELSE /\ phase' = [phase EXCEPT ![c] = "settled"]
          /\ result' = [result EXCEPT ![c] = Result(0, lastCp[c], LinesFilter(lines[c]))]
  /\ UNCHANGED <<outbox, inbox, nextCall, lastCp, lines, seen, readyAtCall, heardScore,
                 observed, limit>>
  /\ UNCHANGED sessionVars
  /\ UNCHANGED engineVars
  /\ UNCHANGED outerVars

\* ---- The engine ----
\* the engine reads the next command posted to it
EngineRead ==
  /\ engPos <= Len(outbox)
  /\ LET k == outbox[engPos] IN
     /\ engPos' = engPos + 1
     /\ inbox' = IF k.cmd = "uci" THEN Append(inbox, LineUciok)
                 ELSE IF k.cmd = "isready" THEN Append(inbox, LineReadyok)
                 ELSE IF k.cmd = "stop" /\ engSearch # 0 THEN Append(inbox, LineBestmove(engSearch))
                 ELSE inbox
     /\ engPosition' = IF k.cmd = "position" THEN k.arg ELSE engPosition
     /\ engSearch' = IF k.cmd = "stop" THEN 0
                     ELSE IF k.cmd = "go" THEN engPosition
                     ELSE engSearch
     /\ UNCHANGED <<engInfoLeft, engAcks>>
  /\ UNCHANGED <<listeners, outbox>>
  /\ UNCHANGED sessionVars
  /\ UNCHANGED callVars
  /\ UNCHANGED outerVars

\* the engine emits one more line containing uciok, after its reply to uci
EngineAckAgain ==
  /\ \E i \in 1..(engPos - 1) : outbox[i] = CmdUci
  /\ engAcks < MaxAcks
  /\ engAcks' = engAcks + 1
  /\ inbox' = Append(inbox, LineUciok)
  /\ UNCHANGED <<engPos, engPosition, engSearch, engInfoLeft, listeners, outbox>>
  /\ UNCHANGED sessionVars
  /\ UNCHANGED callVars
  /\ UNCHANGED outerVars

\* the running search reports: an info line with or without a score and a ranked pv
EngineInfo ==
  /\ engSearch # 0
  /\ engInfoLeft > 0
  /\ engInfoLeft' = engInfoLeft - 1
  /\ \E hs \in BOOLEAN, cp \in Scores, mpv \in 0..1 :
       inbox' = Append(inbox, Line("info", engSearch, hs, IF hs THEN cp ELSE 0, mpv))
  /\ UNCHANGED <<engPos, engPosition, engSearch, engAcks, listeners, outbox>>
  /\ UNCHANGED sessionVars
  /\ UNCHANGED callVars
  /\ UNCHANGED outerVars

\* the running search ends
EngineBestmove ==
  /\ engSearch # 0
  /\ inbox' = Append(inbox, LineBestmove(engSearch))
  /\ engSearch' = 0
  /\ UNCHANGED <<engPos, engPosition, engInfoLeft, engAcks, listeners, outbox>>
  /\ UNCHANGED sessionVars
  /\ UNCHANGED callVars
  /\ UNCHANGED outerVars

\* The Analysis Channel over a started session, with the application's callers.
\* The rating is left alone here: the sync effect touches nothing the channel
\* reads, and SpecSession covers it.
Next ==
  \/ Start
  \/ Commit
  \/ CallerAnalyze
  \/ OnMsg
  \/ OnMsgAgain
  \/ \E c \in CallIds : Timeout(c)
  \/ EngineRead
  \/ EngineInfo
  \/ EngineBestmove

Spec == Init /\ [][Next]_vars

\* analyze as an interface: callable in every session state
NextIface ==
  \/ Start
  \/ Commit
  \/ DirectAnalyze
  \/ OnMsg
  \/ OnMsgAgain
  \/ \E c \in CallIds : Timeout(c)
  \/ EngineRead
  \/ EngineInfo
  \/ EngineBestmove

SpecIface == Init /\ [][NextIface]_vars

\* The Engine Session alone: start, handshake, and rating changes by the user.
NextSession ==
  \/ Start
  \/ Commit
  \/ \E n \in ELO_PRESETS : SetElo(n)
  \/ OnMsg
  \/ OnMsgAgain
  \/ EngineRead

SpecSession == Init /\ [][NextSession]_vars

\* The Engine Session with an engine that may repeat its uciok line.
NextRating ==
  \/ Start
  \/ Commit
  \/ \E n \in ELO_PRESETS : SetElo(n)
  \/ OnMsg
  \/ OnMsgAgain
  \/ EngineRead
  \/ EngineAckAgain

SpecRating == Init /\ [][NextRating]_vars

\* ---- One analysis against an engine that says anything the listener parses ----
\* an info line of the running search: any score field, any rank declaration
EngineInfoRich ==
  /\ engSearch # 0
  /\ engInfoLeft > 0
  /\ inbox = <<>>
  /\ engInfoLeft' = engInfoLeft - 1
  /\ \E fr \in InfoFields :
       LET f == fr[1]
           r == fr[2]
       IN inbox' = Append(inbox, RichLine("info", engSearch, f.hasScore, f.kind, f.val,
                                          r.pv, r.mpv, r.legal, 0))
  /\ UNCHANGED <<engPos, engPosition, engSearch, engAcks, listeners, outbox>>
  /\ UNCHANGED sessionVars
  /\ UNCHANGED callVars
  /\ UNCHANGED outerVars

\* the running search ends: "bestmove <move>" or a bare "bestmove"
EngineBestmoveTok ==
  /\ engSearch # 0
  /\ \E tok \in {0, engSearch} :
       inbox' = Append(inbox, RichLine("bestmove", engSearch, FALSE, "cp", 0, FALSE, 0, TRUE, tok))
  /\ engSearch' = 0
  /\ UNCHANGED <<engPos, engPosition, engInfoLeft, engAcks, listeners, outbox>>
  /\ UNCHANGED sessionVars
  /\ UNCHANGED callVars
  /\ UNCHANGED outerVars

\* the first analysis of a ready session
ParseAnalyze == renderedReady /\ nextCall = 1 /\ Analyze(nextCall, MOVETIME_MS) /\ UNCHANGED outerVars

InitParse == InitWith(MaxParseLines) /\ hasCtor /\ IdleOuter

NextParse ==
  \/ Start
  \/ Commit
  \/ ParseAnalyze
  \/ OnMsg
  \/ OnMsgAgain
  \/ \E c \in CallIds : Timeout(c)
  \/ EngineRead
  \/ EngineInfoRich
  \/ EngineBestmoveTok

SpecParse == InitParse /\ [][NextParse]_vars

\* ---- Grading of a loss ----
\* onPieceDrop grades the loss of a move
GradeMove ==
  /\ \E x \in (-MaxLoss)..MaxLoss :
       /\ gradedLoss' = x
       /\ grade' = gradeFromLoss(x)
  /\ UNCHANGED <<movesSAN, openingInfo, explained, rationale, lossIn>>
  /\ UNCHANGED <<hookVars, appVars>>

NextGrade == GradeMove

SpecGrade == InitPure /\ [][NextGrade]_vars

\* ---- The opening shown for the game's history ----
\* a move is added to the history; the memo recomputes detectOpening
PlayMove ==
  /\ Len(movesSAN) < MaxHist
  /\ \E m \in HistoryMoves(Len(movesSAN) + 1) :
       /\ movesSAN' = Append(movesSAN, m)
       /\ openingInfo' = detectOpening(movesSAN')
  /\ UNCHANGED <<gradedLoss, grade, explained, rationale, lossIn>>
  /\ UNCHANGED <<hookVars, appVars>>

NextOpening == PlayMove

SpecOpening == InitPure /\ [][NextOpening]_vars

\* ---- The rationale of a move ----
\* onPieceDrop calls explainHeuristic(move, before, after) for the move it records
ExplainMove ==
  /\ explained = NoExplain
  /\ \E x \in ExplainInputs :
       /\ explained' = x
       /\ rationale' = explainHeuristic(x)
  /\ UNCHANGED <<gradedLoss, grade, movesSAN, openingInfo, lossIn>>
  /\ UNCHANGED <<hookVars, appVars>>

NextExplain == ExplainMove

SpecExplain == InitPure /\ [][NextExplain]_vars

\* ---- analyze called with limits of the caller's choice ----
\* the movetime values of the model's callers
Limits == {100, MOVETIME_MS}

\* analyze(fen, l) called in a ready session with any limit
LimitAnalyze ==
  /\ renderedReady
  /\ nextCall <= MaxCalls
  /\ \E l \in Limits : Analyze(nextCall, l)
  /\ UNCHANGED outerVars

NextLimits ==
  \/ Start
  \/ Commit
  \/ LimitAnalyze
  \/ OnMsg
  \/ OnMsgAgain
  \/ \E c \in CallIds : Timeout(c)
  \/ EngineRead
  \/ EngineInfo
  \/ EngineBestmove

SpecLimits == Init /\ [][NextLimits]_vars

\* ---- The Coaching Pipeline: the handlers of the App ----
Awaiting == {"awaitPre", "awaitPost", "awaitReply", "awaitHint"}
\* the promise handler t awaits is resolved: its continuation is queued
Runnable(t) == tasks[t].pc \in Awaiting /\ result[tasks[t].call].settled
\* queued continuations run in the order their promises were resolved
MyTurn(t) == Runnable(t) /\ \A u \in TaskIds : Runnable(u) => tasks[t].call <= tasks[u].call
\* no continuation is queued: the event loop takes the next event
Quiet == \A t \in TaskIds : ~Runnable(t)
\* the event loop takes the next event: no continuation and no second onMsg run is due
BetweenEvents == Quiet /\ redeliver = NoLine

\* game.move(tok) on object o, then setGame(new Chess(game.fen())); setFen(game.fen())
Played(o, tok) ==
  /\ objs' = Append([objs EXCEPT ![o].hist = Append(@, tok)], NewChess(Fen(o) \o <<tok>>))
  /\ game' = Len(objs) + 1
  /\ Rendered
  /\ fenShown' = Fen(o) \o <<tok>>
\* setGame(new Chess(game.fen())); setFen(game.fen()) with object o as it is
Rerendered(o) ==
  /\ objs' = Append(objs, NewChess(Fen(o)))
  /\ game' = Len(objs) + 1
  /\ Rendered
  /\ fenShown' = Fen(o)
\* handler t, in state T, calls engine.analyze and awaits it at pc; the
\* object it reads will be in position pos
Awaits(t, T, pc, pos) ==
  /\ nextCall <= MaxAppCalls
  /\ Analyze(nextCall, MOVETIME_MS)
  /\ tasks' = [tasks EXCEPT ![t] = [T EXCEPT !.pc = pc, !.call = nextCall, !.calls = @ + 1,
                                              !.pos = pos]]
\* handler t ends in state pc without touching the hook
Ends(t, T, pc) ==
  /\ tasks' = [tasks EXCEPT ![t] = [T EXCEPT !.pc = pc]]
  /\ UNCHANGED hookVars

\* cpLoss of part_000: cpBefore - cpAfterFromPlayer, cpAfterFromPlayer = -cpAfter
\* loss of src/src/App.jsx: (cpBefore - cpAfter) * (game.turn() === "w" ? 1 : -1)
LossOf(cpBefore, cpAfter, pos) ==
  IF variant = "part_000" THEN cpBefore - (-cpAfter)
  ELSE (cpBefore - cpAfter) * (IF Turn(pos) = "w" THEN 1 ELSE -1)
\* grade of part_000: gradeFromLoss(cpLoss)
\* grade of src/src/App.jsx: engine.ready ? gradeFromLoss(loss) : "A"
GradeOf(loss, rdy) ==
  IF variant = "part_000" \/ rdy THEN gradeFromLoss(loss) ELSE "A"

\* ---- The loss of a move ----
\* the scores analyze may hand to onPieceDrop, relative to the side to move
LossScores == {-MaxScore, -30, 0, 30, MaxScore}
\* onPieceDrop with the engine ready, from the two analyses to the grade: the
\* mover moves in position pos, cpBefore is the score of pos and cpAfter the
\* score of the position after the move
ScoreDrop ==
  /\ \E pos \in {<<>>, <<EngineMove(1)>>}, cpBefore \in LossScores, cpAfter \in LossScores :
       LET after == Append(pos, UserMove(1, FALSE))
           loss == LossOf(cpBefore, cpAfter, after)
       IN /\ lossIn' = [cpBefore |-> cpBefore, cpAfter |-> cpAfter, mover |-> Turn(pos)]
          /\ gradedLoss' = loss
          /\ grade' = GradeOf(loss, TRUE)
  /\ UNCHANGED <<movesSAN, openingInfo, explained, rationale>>
  /\ UNCHANGED <<hookVars, appVars>>

NextLoss == ScoreDrop

SpecLoss == InitPure /\ [][NextLoss]_vars

\* onPieceDrop up to its first await, or to its end when there is none
DropStart ==
  /\ BetweenEvents
  /\ nextTask <= MaxTasks
  /\ nextTask' = nextTask + 1
  /\ LET t == nextTask
         o == game
         T == [NoTask EXCEPT !.kind = "drop", !.obj = o, !.rdy = renderedReady]
     IN \E ok \in MoveAnswers(Fen(o)), ov \in BOOLEAN :
          IF renderedReady /\ variant = "part_000"
          THEN \* the analysis before the move comes first
               /\ Awaits(t, T, "awaitPre", Fen(o))
               /\ UNCHANGED <<objs, game, fenShown, movesSAN, openingInfo, coach>>
          ELSE IF ~ok
          THEN \* if (!move) return false
               /\ Ends(t, T, "rejected")
               /\ UNCHANGED <<objs, game, fenShown, movesSAN, openingInfo, coach>>
          ELSE IF renderedReady
          THEN \* src/src/App.jsx: the move is taken back and the position analysed
               /\ Awaits(t, [T EXCEPT !.ov = ov], "awaitPre", Fen(o))
               /\ UNCHANGED <<objs, game, fenShown, movesSAN, openingInfo, coach>>
          ELSE \* not ready: nothing is awaited, the handler runs to its end
               /\ Played(o, UserMove(t, ov))
               /\ coach' = CoachAppend(coach,
                              MoveRecord(t, Len(objs[o].hist) + 1, UserMove(t, ov),
                                         GradeOf(LossOf(0, 0, Fen(o) \o <<UserMove(t, ov)>>), FALSE),
                                         LossOf(0, 0, Fen(o) \o <<UserMove(t, ov)>>)))
               /\ Ends(t, T, "done")
  /\ UNCHANGED <<candidates, openTimers, newGames, undos, restPure>>

\* onPieceDrop resumed with the analysis of the position before the move
ResumePre(t) ==
  /\ tasks[t].kind = "drop" /\ tasks[t].pc = "awaitPre" /\ MyTurn(t)
  /\ LET T == [tasks[t] EXCEPT !.cpBefore = result[tasks[t].call].cp, !.prePos = tasks[t].pos]
         o == T.obj
     IN IF variant = "part_000"
        THEN \E ok \in MoveAnswers(Fen(o)), ov \in BOOLEAN :
               IF ~ok
               THEN /\ Ends(t, T, "rejected")
                    /\ UNCHANGED <<objs, game, fenShown, movesSAN, openingInfo>>
               ELSE /\ Played(o, UserMove(t, ov))
                    /\ Awaits(t, [T EXCEPT !.ov = ov], "awaitPost", Fen(o) \o <<UserMove(t, ov)>>)
        ELSE \* game.move(moveObj) again, its answer unread
             \E ok \in (IF Fen(o) = T.pos THEN {TRUE} ELSE MoveAnswers(Fen(o))) :
               /\ IF ok THEN Played(o, UserMove(t, T.ov)) ELSE Rerendered(o)
               /\ Awaits(t, T, "awaitPost",
                         IF ok THEN Fen(o) \o <<UserMove(t, T.ov)>> ELSE Fen(o))
  /\ UNCHANGED <<coach, candidates, nextTask, openTimers, newGames, undos, restPure>>

\* onPieceDrop resumed with the analysis of the position after the move:
\* the record is appended and engineMove is called
ResumePost(t) ==
  /\ tasks[t].kind = "drop" /\ tasks[t].pc = "awaitPost" /\ MyTurn(t)
  /\ LET T == tasks[t]
         o == T.obj
         loss == LossOf(T.cpBefore, result[T.call].cp, Fen(o))
     IN /\ coach' = CoachAppend(coach,
                       MoveRecord(t, Len(objs[o].hist), UserMove(t, T.ov), GradeOf(loss, T.rdy), loss))
        /\ IF IsGameOver(Fen(o))
           THEN Ends(t, T, "done")
           ELSE Awaits(t, T, "awaitReply", Fen(o))
  /\ UNCHANGED <<objs, game, fenShown, movesSAN, openingInfo, candidates, nextTask, openTimers, newGames, undos, restPure>>

\* engineMove resumed with its analysis: the best move is played if it is a
\* legal move of the handler's object.  The best move of the handler's own
\* search is legal in the position searched; any other may or may not be.
ResumeReply(t) ==
  /\ tasks[t].pc = "awaitReply" /\ MyTurn(t)
  /\ LET T == tasks[t]
         o == T.obj
         bm == result[T.call].bestmove
     IN \E found \in (IF bm = 0 \/ IsGameOver(Fen(o)) THEN {FALSE}
                       ELSE IF bm = T.call /\ Fen(o) = T.pos THEN {TRUE}
                       ELSE BOOLEAN) :
          /\ IF found THEN Played(o, EngineMove(bm)) ELSE UNCHANGED <<objs, game, fenShown, movesSAN, openingInfo>>
          /\ Ends(t, T, "done")
  /\ UNCHANGED <<coach, candidates, nextTask, openTimers, newGames, undos, restPure>>

\* newGame(color)
NewGame ==
  /\ BetweenEvents
  /\ newGames < MaxNewGames
  /\ newGames' = newGames + 1
  /\ objs' = Append(objs, NewChess(<<>>))
  /\ game' = Len(objs) + 1
  /\ Rendered
  /\ fenShown' = <<>>
  /\ coach' = <<>>
  /\ \E color \in {"white", "black"} :
       openTimers' = IF color = "black" THEN Append(openTimers, OpenTimer(game, renderedReady))
                     ELSE openTimers
  /\ UNCHANGED <<candidates, tasks, nextTask, undos, restPure>>
  /\ UNCHANGED hookVars

\* the timer of newGame fires: engineMove up to its await
OpenFire ==
  /\ BetweenEvents
  /\ openTimers # <<>>
  /\ openTimers' = Tail(openTimers)
  /\ LET tm == Head(openTimers) IN
     IF ~tm.rdy \/ IsGameOver(Fen(tm.obj))
     THEN UNCHANGED <<tasks, nextTask, hookVars>>
     ELSE /\ nextTask <= MaxTasks
          /\ nextTask' = nextTask + 1
          /\ Awaits(nextTask, [NoTask EXCEPT !.kind = "open", !.obj = tm.obj, !.rdy = tm.rdy],
                    "awaitReply", Fen(tm.obj))
  /\ UNCHANGED <<objs, game, fenShown, movesSAN, openingInfo, coach, candidates, newGames, undos, restPure>>

\* game.undo() on a history hist
UndoOnce(hist) == IF hist = <<>> THEN hist ELSE SubSeq(hist, 1, Len(hist) - 1)

\* onUndo
Undo ==
  /\ BetweenEvents
  /\ undos < MaxUndos
  /\ undos' = undos + 1
  /\ LET o == game
         h2 == UndoOnce(UndoOnce(objs[o].hist))
     IN IF variant = "part_000" /\ objs[o].hist = <<>>
        THEN UNCHANGED <<objs, game, fenShown, movesSAN, openingInfo>>
        ELSE /\ objs' = Append([objs EXCEPT ![o].hist = h2], NewChess(objs[o].base \o h2))
             /\ game' = Len(objs) + 1
             /\ Rendered
             /\ fenShown' = objs[o].base \o h2
  /\ UNCHANGED <<coach, candidates, tasks, nextTask, openTimers, newGames, restPure>>
  /\ UNCHANGED hookVars

\* getHints up to its await (it returns at once when the engine is not ready)
GetHints ==
  /\ BetweenEvents
  /\ renderedReady
  /\ nextTask <= MaxTasks
  /\ nextTask' = nextTask + 1
  /\ Awaits(nextTask, [NoTask EXCEPT !.kind = "hint", !.obj = game, !.rdy = TRUE],
            "awaitHint", Fen(game))
  /\ UNCHANGED <<objs, game, fenShown, movesSAN, openingInfo, coach, candidates, openTimers, newGames, undos, restPure>>

\* (res.lines || []).slice(0, MAX_HINTS)
Slice(ls, n) == SubSeq(ls, 1, Min(n, Len(ls)))

\* getHints resumed with its analysis
ResumeHint(t) ==
  /\ tasks[t].kind = "hint" /\ tasks[t].pc = "awaitHint" /\ MyTurn(t)
  /\ candidates' = Slice(result[tasks[t].call].lines, MAX_HINTS)
  /\ Ends(t, tasks[t], "done")
  /\ UNCHANGED <<objs, game, fenShown, movesSAN, openingInfo, coach, nextTask, openTimers, newGames, undos, restPure>>

\* the events of the hook, taken when no continuation is queued
AppStart == Quiet /\ Start
AppCommit == Quiet /\ Commit
AppOnMsg == Quiet /\ OnMsg
AppOnMsgAgain == Quiet /\ OnMsgAgain
AppTimeout(c) == Quiet /\ Timeout(c)

InitApp == InitWith(0) /\ IdleOuter

NextApp ==
  \/ AppStart
  \/ AppCommit
  \/ AppOnMsg
  \/ AppOnMsgAgain
  \/ \E c \in CallIds : AppTimeout(c)
  \/ EngineRead
  \/ EngineBestmove
  \/ DropStart
  \/ \E t \in TaskIds : ResumePre(t)
  \/ \E t \in TaskIds : ResumePost(t)
  \/ \E t \in TaskIds : ResumeReply(t)
  \/ NewGame
  \/ OpenFire
  \/ Undo
  \/ GetHints
  \/ \E t \in TaskIds : ResumeHint(t)

SpecApp == InitApp /\ [][NextApp]_vars

\* Timers fire and posted lines are handled (the event loop runs); the engine
\* and the user owe nothing.
Fairness ==
  /\ WF_vars(OnMsg)
  /\ WF_vars(OnMsgAgain)
  /\ WF_vars(Commit)
  /\ \A c \in CallIds : WF_vars(Timeout(c))

FairSpec == Init /\ [][Next]_vars /\ Fairness

\* The user's moves and the engine's replies alone, with the event loop running
\* and the engine at work: messages are handled, renders commit, timers fire,
\* continuations run, the engine reads its commands and ends its searches.
\* The user's piece drops are not fair: the user may stop playing.
NextReply ==
  \/ AppStart
  \/ AppCommit
  \/ AppOnMsg
  \/ AppOnMsgAgain
  \/ \E c \in CallIds : AppTimeout(c)
  \/ EngineRead
  \/ EngineBestmove
  \/ DropStart
  \/ \E t \in TaskIds : ResumePre(t)
  \/ \E t \in TaskIds : ResumePost(t)
  \/ \E t \in TaskIds : ResumeReply(t)

FairnessReply ==
  /\ WF_vars(AppStart)
  /\ WF_vars(AppCommit)
  /\ WF_vars(AppOnMsg)
  /\ WF_vars(AppOnMsgAgain)
  /\ \A c \in CallIds : WF_vars(AppTimeout(c))
  /\ WF_vars(EngineRead)
  /\ WF_vars(EngineBestmove)
  /\ \A t \in TaskIds : WF_vars(ResumePre(t))
  /\ \A t \in TaskIds : WF_vars(ResumePost(t))
  /\ \A t \in TaskIds : WF_vars(ResumeReply(t))

FairReply == InitApp /\ [][NextReply]_vars /\ FairnessReply

\* ======================= Claims =======================
Pending(c) == phase[c] = "pending"
Settled(c) == phase[c] = "settled"
\* the step is onMsg handling a bestmove line
BestmoveStep == inbox # <<>> /\ inbox' = Tail(inbox) /\ Head(inbox).t = "bestmove"
\* the step is the timeout of call c firing
TimeoutStep(c) == timer[c] = "armed" /\ timer'[c] = "fired"

\* C1: in every reachable state at most one analysis listener is registered
\* (a new analyze call detaches the listener of a still-pending earlier call
\* before its commands are sent).
C1_AtMostOneListener == Len(listeners) <= 1

\* C2: no analyze call observes another call's lines: every info / bestmove
\* line the listener of call c processed was emitted by the search started
\* for call c.
C2_NoCrosstalk == \A c \in CallIds : seen[c] \subseteq {c}

\* C3: each call resolves exactly once. Of "bestmove line handled" and "timeout
\* fired", the first delivers the result and detaches the call's listener; the
\* later one delivers nothing, leaves the delivered result as it is, and
\* removes no other call's listener.
C3_SettledDetached == \A c \in CallIds : result[c].settled <=> Settled(c)
C3_Detached == \A c \in CallIds : Settled(c) => ~InSeq(c, listeners)
C3_Step ==
  \A c \in CallIds :
    /\ result[c].settled => result'[c] = result[c]
    /\ (Pending(c) /\ TimeoutStep(c)) =>
          /\ result'[c] = Result(0, lastCp[c], LinesFilter(lines[c]))
          /\ ~InSeq(c, listeners')
    /\ (Pending(c) /\ InSeq(c, listeners) /\ BestmoveStep) =>
          /\ result'[c] = Result(Head(inbox).s, lastCp[c], LinesFilter(lines[c]))
          /\ ~InSeq(c, listeners')
    /\ TimeoutStep(c) =>
          \A d \in CallIds \ {c} : InSeq(d, listeners) => InSeq(d, listeners')
C3_ResolvesOnce == [](C3_SettledDetached /\ C3_Detached) /\ [][C3_Step]_vars

\* C3 witness: a call settled by a bestmove line whose timeout has fired since,
\* while another call's listener is registered.
C3_Witness ==
  \E c \in CallIds, d \in CallIds :
    /\ c # d
    /\ Settled(c) /\ result[c].bestmove # 0 /\ timer[c] = "fired"
    /\ InSeq(d, listeners)

\* C4: every analyze call eventually resolves, also when the engine never
\* emits a bestmove line: the timeout resolves it with the score and variations
\* seen so far (score 0, bestmove null if nothing was seen).
C4_EventuallyResolves ==
  /\ \A c \in CallIds : Pending(c) ~> Settled(c)
  /\ [][\A c \in CallIds : (Pending(c) /\ TimeoutStep(c)) =>
          result'[c] = Result(0, lastCp[c], LinesFilter(lines[c]))]_vars

\* C5: an analyze call made while the session is not Ready (engine instance
\* constructed or not) resolves at once with the neutral result, waiting for no
\* engine line and no timer.
C5_NotReadyNeutral ==
  \A c \in CallIds : (phase[c] # "idle" /\ ~readyAtCall[c]) => result[c] = Neutral

\* C6: with no engine constructor at start, every analyze call resolves with
\* the neutral result, no listener is registered, no command is posted, and
\* the session never becomes Ready.
C6_AbsentEngineNeutral ==
  ~hasCtor =>
    /\ ~ready /\ ~renderedReady /\ ~engineRef
    /\ listeners = <<>>
    /\ outbox = <<>>
    /\ \A c \in CallIds : phase[c] # "idle" => (Settled(c) /\ result[c] = Neutral)

\* C6 witness: the start effect found no constructor and an analyze call was made.
C6_Witness == ~hasCtor /\ mounted /\ Settled(1) /\ result[1] = Neutral

\* C7: the ready flag is true only after uciok was received and, after it, readyok.
C7_ReadyAfterBothAcks == ready => (seenUciok /\ seenReadyok)

\* C8: uci is the first command posted; each uciok makes the session post
\* UCI_LimitStrength, UCI_Elo, MultiPV and then isready, in this order; isready
\* is never posted before those three.
C8_HandshakeOrder ==
  /\ outbox # <<>> => outbox[1] = CmdUci
  /\ seenUciok => \E i \in 1..Len(outbox) : outbox[i] = CmdLimitStrength
  /\ \A i \in 1..Len(outbox) :
       outbox[i] = CmdLimitStrength =>
         /\ i + 3 <= Len(outbox)
         /\ outbox[i + 1].cmd = "setoption UCI_Elo"
         /\ outbox[i + 2].cmd = "setoption MultiPV"
         /\ outbox[i + 3] = CmdIsReady
  /\ \A i \in 1..Len(outbox) :
       outbox[i] = CmdIsReady =>
         /\ i > 3
         /\ outbox[i - 3] = CmdLimitStrength
         /\ outbox[i - 2].cmd = "setoption UCI_Elo"
         /\ outbox[i - 1].cmd = "setoption MultiPV"

\* the commands a step posted
Posted == SubSeq(outbox', Len(outbox) + 1, Len(outbox'))

\* C9: for every preset N, changing the rating to N while the session is Ready
\* posts a UCI_Elo command, and the UCI_Elo command posted carries exactly N.
C9_RatingCommandCarriesPreset ==
  [][(elo' # elo /\ ready /\ renderedReady) =>
        /\ elo' \in ELO_PRESETS
        /\ InSeq(CmdElo(elo'), Posted)
        /\ \A i \in 1..Len(Posted) :
             Posted[i].cmd = "setoption UCI_Elo" => Posted[i].arg = elo']_vars

\* C9 witness (part_000, whose handshake ends with isready): the last four
\* commands are two option pairs with different ratings, so the later pair was
\* posted by a rating change made while Ready.
C9_Witness ==
  /\ variant = "part_000" /\ ready /\ renderedReady
  /\ Len(outbox) >= 4
  /\ outbox[Len(outbox) - 1] = CmdElo(elo)
  /\ outbox[Len(outbox) - 3].cmd = "setoption UCI_Elo"
  /\ outbox[Len(outbox) - 3].arg # elo
  /\ elo = 2200

\* C10: a rating change made before the session is Ready posts no command, and
\* a rating change in any state leaves the ready flag as it is.
C10_ConfigureFrame ==
  [][elo' # elo =>
        /\ ready' = ready
        /\ renderedReady' = renderedReady
        /\ (~ready => outbox' = outbox)]_vars

\* C10 witness: the engine is constructed, the handshake is not yet
\* acknowledged, and the rating has been changed.
C10_Witness ==
  engineRef /\ ~ready /\ ~seenUciok /\ eloChanges > 0 /\ elo # DEFAULT_ELO /\ outbox = <<CmdUci>>

\* ---- Parsing of info and bestmove lines (SpecParse) ----
\* the ranks of the published entries of call c, in publication order
PublishedRanks(c) == [i \in 1..Len(result[c].lines) |-> result[c].lines[i].idx + 1]

\* C11: whatever the order in which ranked info lines arrive, the published
\* principal-variation sequence of a resolved call is strictly ascending in
\* rank, has one entry per position (no gap), and lists exactly the ranks (1
\* and up, as the protocol numbers them) that the call observed with a legal
\* move.
C11_GapFreeAscending ==
  \A c \in CallIds :
    result[c].settled =>
      /\ \A i \in 1..(Len(result[c].lines) - 1) : PublishedRanks(c)[i] < PublishedRanks(c)[i + 1]
      /\ {PublishedRanks(c)[i] : i \in 1..Len(result[c].lines)} = {r \in observed[c] : r >= 1}
      /\ Len(result[c].lines) = Cardinality({r \in observed[c] : r >= 1})

\* C11 witness: a call resolved after observing ranks 3 and 2 but never rank
\* 1; its two entries are published as positions 1 and 2.
C11_Witness ==
  \E c \in CallIds :
    /\ result[c].settled
    /\ observed[c] = {2, 3}
    /\ PublishedRanks(c) = <<2, 3>>

\* C19: one analysis never tracks nor publishes more principal-variation
\* entries than the configured variation count MULTIPV, whatever ranks the
\* info lines declare.
C19_AtMostMultiPV ==
  \A c \in CallIds :
    /\ Cardinality(lines[c]) <= MULTIPV
    /\ Len(result[c].lines) <= MULTIPV

\* the score value a score field stands for; a mate distance of 0 has no sign
ScoreValues(h) ==
  IF h = NoLine THEN {0}
  ELSE IF h.kind = "cp" THEN {h.val}
  ELSE IF h.val > 0 THEN {100000}
  ELSE IF h.val < 0 THEN {-100000}
  ELSE {100000, -100000}

\* C20: when a bestmove line resolves a call, the result carries the token
\* after "bestmove" (null if there is none), the score of the last line with
\* a score field the call handled (the centipawn integer, +100000 or -100000
\* for a mate score by the sign of the distance, 0 if there was none) and the
\* entries collected so far.
C20_BestmoveResult ==
  [][BestmoveStep =>
       \A c \in CallIds :
         (~result[c].settled /\ result'[c].settled) =>
            /\ result'[c].bestmove = Head(inbox).tok
            /\ result'[c].cp \in ScoreValues(heardScore[c])
            /\ {result'[c].lines[i] : i \in 1..Len(result'[c].lines)}
                  = {e \in lines[c] : e.idx >= 0}]_vars

\* C20 witness: a call resolved by a bestmove line with a token after its
\* last score line said "score mate -2" and after a ranked entry was stored.
C20_Witness ==
  \E c \in CallIds :
    /\ result[c].settled /\ result[c].bestmove # 0
    /\ heardScore[c].kind = "mate" /\ heardScore[c].val < 0
    /\ result[c].cp = -100000
    /\ Len(result[c].lines) >= 1

\* ---- Grading (SpecGrade) ----
\* the grades from best to worst
GradeRank(g) ==
  CASE g = "A+" -> 0 [] g = "A" -> 1 [] g = "B" -> 2 [] g = "C" -> 3 [] g = "D" -> 4 [] g = "F" -> 5

\* the step function of the specification over the absolute loss in centipawns
StepGrade(a) ==
  CASE a <= 10 -> "A+"
    [] a > 10 /\ a <= 20 -> "A"
    [] a > 20 /\ a <= 50 -> "B"
    [] a > 50 /\ a <= 90 -> "C"
    [] a > 90 /\ a <= 150 -> "D"
    [] a > 150 -> "F"

\* C12: for every integer centipawn loss gradeFromLoss is the step function of
\* the absolute loss with inclusive upper bounds 10, 20, 50, 90, 150 (A+, A,
\* B, C, D, else F), and a loss of greater absolute value never gets a better
\* grade.
C12_GradeSteps ==
  /\ [](grade # "none" => grade = StepGrade(Abs(gradedLoss)))
  /\ [][(grade # "none" /\ Abs(gradedLoss') >= Abs(gradedLoss))
          => GradeRank(grade') >= GradeRank(grade)]_vars

\* C12 witness: a loss on a boundary, graded with the better grade.
C12_Witness == gradedLoss = -150 /\ grade = "D"

\* ---- Opening Matcher (SpecOpening) ----
KingsKnight == [found |-> TRUE, eco |-> "C40", name |-> "King's Knight Opening", matchedLen |-> 3]

\* C13: for the history e4 e5 Nf3 the matcher returns King's Knight Opening
\* (C40) with matched length 3, not a longer entry.
C13_KingsKnight ==
  movesSAN = <<San("e4", ""), San("e5", ""), San("Nf3", "")>> => openingInfo = KingsKnight

\* the book entries the result names
EntriesOf(o) == {k \in 1..Len(OPENINGS) : OPENINGS[k].eco = o.eco /\ OPENINGS[k].name = o.name}

\* C14: whenever the matcher returns a match, its matched length is at least
\* 1, at most the length of the matched entry's move sequence and at most the
\* length of the history.
C14_MatchedLenBounds ==
  openingInfo.found =>
    /\ openingInfo.matchedLen >= 1
    /\ openingInfo.matchedLen <= Len(movesSAN)
    /\ \A k \in EntriesOf(openingInfo) : openingInfo.matchedLen <= Len(OPENINGS[k].pgn)

\* entry k agrees with the history on every compared ply
Agrees(k) ==
  \A i \in 1..Len(OPENINGS[k].pgn) :
    i <= Len(movesSAN) => OPENINGS[k].pgn[i].mv = movesSAN[i].mv
Matching == {k \in 1..Len(OPENINGS) : Agrees(k)}

C18_CallOrder ==
  \A a, b \in CallIds : (a < b /\ result[b].settled) => result[a].settled

\* ---- Coaching Pipeline (SpecApp) ----
\* the move of handler t was rejected by the board
Rejected(t) == tasks[t].kind = "drop" /\ tasks[t].pc = "rejected"
\* the step is handler t learning that its move is rejected
RejectStep(t) == ~Rejected(t) /\ Rejected(t)'

\* C16: a user move rejected as illegal has no effect: its handler started no
\* analysis (so posted no stop / position / go and asked for no engine reply)
\* and has no MoveRecord, and the step that rejects it leaves the board, the
\* displayed position, the MoveRecord sequence and the commands posted as
\* they were.
C16_RejectedMoveNoEffect ==
  /\ [](\A t \in TaskIds :
          Rejected(t) => /\ tasks[t].calls = 0
                         /\ \A i \in 1..Len(coach) : coach[i].drop # t)
  /\ [][\A t \in TaskIds :
          RejectStep(t) => /\ coach' = coach
                           /\ objs' = objs /\ game' = game /\ fenShown' = fenShown
                           /\ outbox' = outbox /\ nextCall' = nextCall]_vars

\* the step appends one record and keeps the records before it
AppendsOne == Len(coach') = Len(coach) + 1 /\ SubSeq(coach', 1, Len(coach)) = coach
\* the record appended is the one of a user move accepted by the board, made
\* by its handler at the one place where it grades the move
ByAcceptedMove ==
  LET t == coach'[Len(coach')].drop IN
    /\ tasks'[t].kind = "drop"
    /\ tasks[t].pc \in {"idle", "awaitPost"}
    /\ tasks'[t].pc \in {"awaitReply", "done"}

C21_UnderDefended ==
  explained # NoExplain =>
     (InSeq(UnderDefended, rationale) <=> explained.oppTo > explained.ownTo)

\* the mover's evaluation before and after the move, from scores that are
\* relative to the side to move: the mover before it, the opponent after it
MoverBefore == lossIn.cpBefore
MoverAfter == -lossIn.cpAfter

\* C22: for a move of White or of Black made with the engine Ready, the loss
\* recorded is positive exactly when the mover's evaluation before the move is
\* greater than after it, and negative when the move improved it.
C22_LossSign ==
  lossIn # NoLossIn =>
     /\ gradedLoss > 0 <=> MoverBefore > MoverAfter
     /\ MoverBefore < MoverAfter => gradedLoss < 0

\* the notated moves played in the game on the board, in order
MovesPlayed == [i \in 1..Len(Fen(game)) |-> PlySan(i)]

\* C24: the history handed to detectOpening is the complete sequence of the
\* notated moves played in the current game, in order, after any sequence of
\* accepted user moves and engine replies since the last new game.
C24_CompleteHistory ==
  /\ movesSAN = MovesPlayed
  /\ openingInfo = detectOpening(MovesPlayed)

\* the engineMove that newGame scheduled gets the engine's move for its analysis
OpenReply(t) ==
  /\ tasks[t].kind = "open" /\ tasks[t].pc = "awaitReply" /\ tasks'[t].pc = "done"
  /\ result[tasks[t].call].bestmove = tasks[t].call
\* the timer newGame set with the session Ready fires
OpenRun == openTimers # <<>> /\ openTimers' = Tail(openTimers) /\ Head(openTimers).rdy
C25_OpenRuns == OpenRun => nextTask' = nextTask + 1
C25_OpenReplies ==
  \A t \in TaskIds : OpenReply(t) => (Len(fenShown') = 1 /\ fenShown'[1].by = "engine")

\* C25: after 'new game as Black', requested in any state of the previous
\* game, the scheduled engine move analyses the initial position of the new
\* game and its move is applied there: once it has run, the board is the
\* initial position plus exactly one move of White, never a continuation of
\* the previous game.
C25_OpeningOnNewGame == [][C25_OpenRuns /\ C25_OpenReplies]_vars

\* handler t appends its MoveRecord
Records(t) ==
  /\ Len(coach') = Len(coach) + 1
  /\ coach'[Len(coach')].drop = t
\* the move of handler t stands on some Chess object, made in position p
AppliedAt(t, p) ==
  \E k \in 1..Len(objs) : \E i \in 1..Len(Fen(k)) :
    /\ Fen(k)[i].by = "user" /\ Fen(k)[i].id = t
    /\ SubSeq(Fen(k), 1, i - 1) = p
C28_Step ==
  \A t \in TaskIds :
    (Records(t) /\ tasks[t].pc = "awaitPost") => AppliedAt(t, tasks[t].prePos)
C28_OnePerMove ==
  \A i \in 1..Len(coach) : \A j \in 1..Len(coach) : i # j => coach[i].drop # coach[j].drop

\* C28: when user-move handlers overlap, every MoveRecord appended describes a
\* move that was applied to the board, in the position its grade was computed
\* for, and no applied move gets more than one MoveRecord.
C28_RecordsAppliedMoves == []C28_OnePerMove /\ [][C28_Step]_vars

\* handler t has made the user's move and its engineMove awaits the reply analysis
ReplyPending(t) == tasks[t].kind = "drop" /\ tasks[t].pc = "awaitReply"
\* handler t has ended, and a move was made in the position it asked the reply for
ReplyApplied(t) == tasks[t].pc = "done" /\ Len(Fen(tasks[t].obj)) > Len(tasks[t].pos)

\* the run has made all the analyze calls it may make
BudgetSpent == nextCall > MaxAppCalls

\* C23: after an accepted user move made while the session is Ready and the
\* game is not over, the engine's reply is eventually applied to the board,
\* also when the reply analysis is resolved by the timeout or superseded by
\* another analyze call (in every run that does not end for want of calls).
C23_ReplyEventually ==
  \A t \in TaskIds : ReplyPending(t) ~> (ReplyApplied(t) \/ BudgetSpent)

\* the rating commands posted so far, oldest first
RatingCommands == SelectSeq(outbox, LAMBDA k : k.cmd = "setoption UCI_Elo")

\* C26: once the session is Ready, the most recent UCI_Elo command posted to the
\* engine carries the rating currently selected, also when the rating changed
\* between the start of the session and Ready, and when a further line
\* containing uciok arrives after Ready.
C26_LastRatingCurrent ==
  (ready /\ renderedReady) =>
     /\ RatingCommands # <<>>
     /\ RatingCommands[Len(RatingCommands)].arg = elo

\* the second run of onMsg on a line
SecondRun == redeliver # NoLine /\ redeliver' = NoLine

\* C27: every line the engine emits is dispatched exactly once. onMsg being
\* installed both as the onmessage property and as a "message" listener, no
\* line is processed a second time: no second run posts handshake options,
\* reaches a listener, or resolves a call.
C27_DispatchedOnce ==
  [][SecondRun => UNCHANGED <<outbox, listeners, lastCp, lines, seen, result>>]_vars

====
